---- MODULE Spec2Model ----
(***************************************************************************)
(* State-machine model of the image editor (src/App.tsx) and of the edit    *)
(* service wrapper editImageWithGemini (src/components/Spinner.tsx).        *)
(*                                                                          *)
(* Conventions.  A JavaScript null is the record Null.  A MIME type is a    *)
(* sequence of tokens (<<"image", "/", "png">>), so that template literals  *)
(* and startsWith are computed rather than assumed.  A data URL is kept as  *)
(* its two comma-separated segments: seg0 is the text before the comma      *)
(* ("data:<mime>;base64") and seg1 the payload after it, so split(',')[1]   *)
(* is seg1.  A payload is a record describing the bitmap it decodes to.     *)
(* The overlay text is a sequence of characters.                            *)
(***************************************************************************)
EXTENDS Integers, Sequences, FiniteSets, TLC

\* ------------------------------------------------------------------ bounds
\* Mouse coordinates inside the cropper container range over 0..MaxCoord.
MaxCoord == 2
\* Edit requests that may be in flight at once.
MaxPending == 2
\* Overlay renders (applyTextOverlay promises) that may be in flight at once.
MaxRenders == 1
\* FileReader reads that may be in flight at once.
MaxReads == 1
\* Image loads started by handleDownload that may be in flight at once.
MaxDownloads == 1

\* ------------------------------------------------------------- basic values
Null == [kind |-> "null"]

Min(a, b) == IF a <= b THEN a ELSE b
Abs(a) == IF a < 0 THEN -a ELSE a

\* String.prototype.startsWith on token sequences.
StartsWith(s, prefix) ==
    /\ Len(s) >= Len(prefix)
    /\ SubSeq(s, 1, Len(prefix)) = prefix

\* String.prototype.trim on character sequences (" " is the whitespace).
RECURSIVE TrimLeft(_)
TrimLeft(s) ==
    IF s = <<>> THEN <<>>
    ELSE IF Head(s) = " " THEN TrimLeft(Tail(s)) ELSE s

RECURSIVE TrimRight(_)
TrimRight(s) ==
    IF s = <<>> THEN <<>>
    ELSE IF s[Len(s)] = " " THEN TrimRight(SubSeq(s, 1, Len(s) - 1)) ELSE s

Trim(s) == TrimRight(TrimLeft(s))

\* `data:${mimeType};base64,${base64Data}`
DataUrl(mimeType, base64Data) ==
    [seg0 |-> <<"data:">> \o mimeType \o <<";base64">>, seg1 |-> base64Data]

\* url.split(',')[1]
SplitComma1(url) == url.seg1

\* What the browser decodes a payload to.
Decodable(p) == p.kind # "junk"
Width(p) == p.w
Height(p) == p.h

\* --------------------------------------------------------------- the inputs
PNG == <<"image", "/", "png">>
JPEG == <<"image", "/", "jpeg">>
WEBP == <<"image", "/", "webp">>
PDF == <<"application", "/", "pdf">>

\* The files the user can select: a JPEG photo shown at half its natural size
\* and a PNG shown at its natural size.
FileA == [type |-> JPEG,
          bytes |-> [kind |-> "file", id |-> "a", w |-> 2 * MaxCoord, h |-> 2 * MaxCoord]]
FileB == [type |-> PNG,
          bytes |-> [kind |-> "file", id |-> "b", w |-> MaxCoord, h |-> MaxCoord]]
Files == {FileA, FileB}
BackgroundFiles == {FileB}

\* The bitmaps the service may answer with; the last one does not decode.
Gen1 == [kind |-> "gen", id |-> "g1", w |-> 3, h |-> 2]
Gen2 == [kind |-> "gen", id |-> "g2", w |-> 2, h |-> 4]
Junk == [kind |-> "junk", id |-> "j", w |-> 0, h |-> 0]

CannedPrompt == "Replace the background of the first image with the second image."
Prompts == {"", "Add a dog in the foreground", CannedPrompt}
AspectRatios == {"original", "16:9", "4:3"}
OutputFormats == {"png", "jpeg", "webp"}
Texts == {<<>>, <<" ">>, <<"A">>}
FontFamilies == {"Arial", "Impact"}
TextColors == {"#ffffff", "#000000"}
TextPositionChoices == {"center", "top-left"}
\* What the user can type into the font-size field: nothing (parseInt gives
\* NaN), "0" or "48".
FontSizeInputs == {[nan |-> TRUE, val |-> 0], [nan |-> FALSE, val |-> 0],
                   [nan |-> FALSE, val |-> 48]}
Points == (0..MaxCoord) \X (0..MaxCoord)

\* ------------------------------------------------- ImageCropper: geometry
\* getCropRect (the component's state is passed in).
getCropRect(isCrop, cStart, cEnd) ==
    IF ~isCrop /\ cStart.x = 0 /\ cEnd.x = 0 THEN Null
    ELSE LET x == Min(cStart.x, cEnd.x)
             y == Min(cStart.y, cEnd.y)
             width == Abs(cStart.x - cEnd.x)
             height == Abs(cStart.y - cEnd.y)
         IN IF width = 0 \/ height = 0 THEN Null
            ELSE [x |-> x, y |-> y, width |-> width, height |-> height]

\* image.width / image.height: the size the <img> is laid out at.
DisplayWidth == MaxCoord
DisplayHeight == MaxCoord

\* handleConfirmCrop: the image handed to onCropComplete, or Null when the
\* handler returns without calling it (no 2d context).
ConfirmCropResult(imageUrl, cropRect, ctxOk) ==
    IF cropRect = Null \/ cropRect.width = 0 \/ cropRect.height = 0
    THEN [url |-> imageUrl, mimeType |-> PNG]
    ELSE LET image == SplitComma1(imageUrl)
             sourceX == (cropRect.x * Width(image)) \div DisplayWidth
             sourceY == (cropRect.y * Height(image)) \div DisplayHeight
             sourceWidth == (cropRect.width * Width(image)) \div DisplayWidth
             sourceHeight == (cropRect.height * Height(image)) \div DisplayHeight
             canvas == [kind |-> "crop", of |-> image,
                        sx |-> sourceX, sy |-> sourceY,
                        w |-> sourceWidth, h |-> sourceHeight]
         IN IF ~ctxOk THEN Null
            ELSE [url |-> DataUrl(PNG, canvas), mimeType |-> PNG]

\* fileToDataUrl: the value the promise resolves with.
fileToDataUrl(file) == [url |-> DataUrl(file.type, file.bytes), mimeType |-> file.type]

\* ------------------------------------------------------- applyTextOverlay
\* The anchor of the text; coordinates are in twentieths of a pixel, so that
\* padding = min(width, height) * 0.05 is exact.
TextAnchor(textPosition, w, h) ==
    LET padding == Min(w, h)
    IN CASE textPosition = "top-left" ->
              [align |-> "left", baseline |-> "top", x |-> padding, y |-> padding]
         [] textPosition = "top-center" ->
              [align |-> "center", baseline |-> "top", x |-> 10 * w, y |-> padding]
         [] textPosition = "top-right" ->
              [align |-> "right", baseline |-> "top", x |-> 20 * w - padding, y |-> padding]
         [] textPosition = "middle-left" ->
              [align |-> "left", baseline |-> "middle", x |-> padding, y |-> 10 * h]
         [] textPosition = "middle-right" ->
              [align |-> "right", baseline |-> "middle", x |-> 20 * w - padding, y |-> 10 * h]
         [] textPosition = "bottom-left" ->
              [align |-> "left", baseline |-> "bottom", x |-> padding, y |-> 20 * h - padding]
         [] textPosition = "bottom-center" ->
              [align |-> "center", baseline |-> "bottom", x |-> 10 * w, y |-> 20 * h - padding]
         [] textPosition = "bottom-right" ->
              [align |-> "right", baseline |-> "bottom",
               x |-> 20 * w - padding, y |-> 20 * h - padding]
         [] OTHER ->
              [align |-> "center", baseline |-> "middle", x |-> 10 * w, y |-> 10 * h]

\* applyTextOverlay: how the promise settles for the given base image, text
\* and options; ctxOk says whether canvas.getContext('2d') gave a context.
applyTextOverlay(base64Image, text, options, ctxOk) ==
    LET img == SplitComma1(base64Image)
    IN IF ~Decodable(img)
       THEN [ok |-> FALSE, message |-> "Failed to load image for text overlay."]
       ELSE IF ~ctxOk
       THEN [ok |-> FALSE, message |-> "Could not get canvas context"]
       ELSE LET a == TextAnchor(options.textPosition, Width(img), Height(img))
                canvas == [kind |-> "overlay", base |-> img,
                           w |-> Width(img), h |-> Height(img),
                           text |-> text,
                           fontSize |-> options.fontSize,
                           fontFamily |-> options.fontFamily,
                           fillStyle |-> options.textColor,
                           textAlign |-> a.align, textBaseline |-> a.baseline,
                           x |-> a.x, y |-> a.y]
            IN [ok |-> TRUE, url |-> DataUrl(PNG, canvas)]

\* ---------------------------------------------------- editImageWithGemini
InlinePart(data, mimeType) == [kind |-> "inline", data |-> data, mimeType |-> mimeType]
TextPart(text) == [kind |-> "text", text |-> text]

\* Mutant of RequestParts: only '16:9' is taken for a chosen aspect ratio.
RequestPartsOnly169(original, promptText, background, ratio) ==
    LET first == <<InlinePart(original.base64Data, original.mimeType)>>
        second == IF background # Null
                  THEN <<InlinePart(background.base64Data, background.mimeType)>>
                  ELSE <<>>
        instruction == IF ratio = "16:9"
                       THEN "\n\nPlease generate the output image with a " \o ratio
                                \o " aspect ratio."
                       ELSE "\n\nPlease preserve the aspect ratio of the first image."
    IN first \o second \o <<TextPart(promptText \o instruction)>>

\* The parts of the request (Spinner.tsx, `parts`).
RequestParts(original, promptText, background, ratio) ==
    LET first == <<InlinePart(original.base64Data, original.mimeType)>>
        second == IF background # Null
                  THEN <<InlinePart(background.base64Data, background.mimeType)>>
                  ELSE <<>>
        instruction == IF ratio = "16:9" \/ ratio = "4:3"
                       THEN "\n\nPlease generate the output image with a " \o ratio
                                \o " aspect ratio."
                       ELSE "\n\nPlease preserve the aspect ratio of the first image."
        finalPrompt == promptText \o instruction
    IN first \o second \o <<TextPart(finalPrompt)>>

\* The loop over response.candidates[0].content.parts.
RECURSIVE FirstImagePart(_)
FirstImagePart(parts) ==
    IF parts = <<>> THEN Null
    ELSE LET part == Head(parts)
         IN IF part.kind = "inline" /\ StartsWith(part.mimeType, <<"image", "/">>)
            THEN [base64Data |-> part.data, mimeType |-> part.mimeType]
            ELSE FirstImagePart(Tail(parts))

\* The message of the TypeError that reading [0] of an undefined candidates
\* list throws (the wording is the engine's).
TypeErrorMessage == "Cannot read properties of undefined (reading '0')"

\* How the promise of editImageWithGemini settles, given what generateContent
\* did: answered with parts, answered without candidates (a blocked prompt),
\* threw an Error, or threw something else.
GeminiResult(outcome) ==
    CASE outcome.kind = "response" ->
           LET found == FirstImagePart(outcome.parts)
           IN IF found # Null THEN [ok |-> TRUE, image |-> found]
              ELSE [ok |-> FALSE,
                    message |-> "No image was generated. The model may not have been able to fulfill the request. Please try a different prompt."]
      [] outcome.kind = "noCandidates" ->
           \* response.candidates[0] throws a TypeError inside the try block.
           [ok |-> FALSE, message |-> TypeErrorMessage]
      [] outcome.kind = "throwError" -> [ok |-> FALSE, message |-> outcome.message]
      [] OTHER ->
           [ok |-> FALSE, message |-> "An unknown error occurred during image generation."]

\* What generateContent may do.
AnswersGen1 == [kind |-> "response", parts |-> <<InlinePart(Gen1, PNG)>>]
AnswersGen2 ==
    [kind |-> "response", parts |-> <<TextPart("Here you go"), InlinePart(Gen2, JPEG)>>]
AnswersJunk ==
    [kind |-> "response", parts |-> <<InlinePart(Gen1, PDF), InlinePart(Junk, WEBP)>>]
AnswersText == [kind |-> "response", parts |-> <<TextPart("I cannot do that")>>]
AnswersBlocked == [kind |-> "noCandidates"]
ThrowsError == [kind |-> "throwError", message |-> "quota exceeded"]
ThrowsOther == [kind |-> "throwOther"]
ServiceOutcomes ==
    {AnswersGen1, AnswersGen2, AnswersJunk, AnswersText, AnswersBlocked, ThrowsError,
     ThrowsOther}

\* ---------------------------------------------------------- handleDownload
\* handleDownload up to img.src = editedImage: the image load it starts, or
\* Null when it returns at once.
StartDownload(edited, format) ==
    IF edited = Null THEN Null
    ELSE [src |-> edited,
          mimeType |-> <<"image", "/", format>>,
          fileExtension |-> format,
          outputFormat |-> format]

\* Mutant of SavedFile: the white background is filled for every format but png.
SavedFileFillsNonPng(job, ctxOk) ==
    LET img == SplitComma1(job.src)
        canvas == [kind |-> "canvas",
                   w |-> Width(img), h |-> Height(img),
                   background |-> IF job.outputFormat # "png" THEN "#ffffff"
                                  ELSE "transparent",
                   drawn |-> img]
    IN IF ~ctxOk THEN Null
       ELSE [download |-> <<"edited-image.", job.fileExtension>>,
             href |-> DataUrl(job.mimeType, canvas)]

\* img.onload of handleDownload: the file handed to the browser, or Null when
\* there is no 2d context.
SavedFile(job, ctxOk) ==
    LET img == SplitComma1(job.src)
        canvas == [kind |-> "canvas",
                   w |-> Width(img), h |-> Height(img),
                   background |-> IF job.outputFormat = "jpeg" THEN "#ffffff"
                                  ELSE "transparent",
                   drawn |-> img]
    IN IF ~ctxOk THEN Null
       ELSE [download |-> <<"edited-image.", job.fileExtension>>,
             href |-> DataUrl(job.mimeType, canvas)]

\* ------------------------------------------------------------------- state
VARIABLES
    \* App (useState)
    uncroppedImage, originalImage, backgroundImage, imageBeforeText, editedImage,
    prompt, isLoading, error,
    textOverlay, fontFamily, fontSize, textColor, textPosition, isTextToolsVisible,
    outputFormat, aspectRatio,
    \* ImageCropper (useState); the component is mounted while uncroppedImage is set
    isCropping, cropStart, cropEnd,
    \* promises and image loads that have not settled yet
    reads,       \* FileReader reads: [file, target]
    requests,    \* edit requests sent by handleGenerate: [id, parts]
    renders,     \* applyTextOverlay calls of the effect: [base, text, options]
    downloads,   \* image loads of handleDownload
    \* history of the drag, kept for the statements about the cropper:
    \* the last mouse-down point, and the last point of the drag it started
    downPoint, dragPoint

appVars == <<uncroppedImage, originalImage, backgroundImage, imageBeforeText, editedImage,
             prompt, isLoading, error, textOverlay, fontFamily, fontSize, textColor,
             textPosition, isTextToolsVisible, outputFormat, aspectRatio>>
cropVars == <<isCropping, cropStart, cropEnd, downPoint, dragPoint>>
asyncVars == <<reads, requests, renders, downloads>>
vars == <<appVars, cropVars, asyncVars>>

Err(message) == [message |-> message]
Point(p) == [x |-> p[1], y |-> p[2]]
RemoveAt(seq, i) == SubSeq(seq, 1, i - 1) \o SubSeq(seq, i + 1, Len(seq))

Init ==
    /\ uncroppedImage = Null
    /\ originalImage = Null
    /\ backgroundImage = Null
    /\ imageBeforeText = Null
    /\ editedImage = Null
    /\ prompt = ""
    /\ isLoading = FALSE
    /\ error = Null
    /\ textOverlay = <<>>
    /\ fontFamily = "Arial"
    /\ fontSize = 48
    /\ textColor = "#ffffff"
    /\ textPosition = "center"
    /\ isTextToolsVisible = FALSE
    /\ outputFormat = "png"
    /\ aspectRatio = "original"
    /\ isCropping = FALSE
    /\ cropStart = [x |-> 0, y |-> 0]
    /\ cropEnd = [x |-> 0, y |-> 0]
    /\ reads = <<>>
    /\ requests = <<>>
    /\ renders = <<>>
    /\ downloads = <<>>
    /\ downPoint = Null
    /\ dragPoint = Null

\* What App renders (the last lines of App).
View ==
    IF uncroppedImage # Null THEN "cropper"
    ELSE IF originalImage # Null THEN "editor" ELSE "uploader"

\* ImageCropper keeps its state while it stays mounted and starts from the
\* initial state when it is mounted again.
CropperKept ==
    IF uncroppedImage' # Null /\ uncroppedImage # Null
    THEN UNCHANGED cropVars
    ELSE /\ isCropping' = FALSE
         /\ cropStart' = [x |-> 0, y |-> 0]
         /\ cropEnd' = [x |-> 0, y |-> 0]
         /\ downPoint' = Null
         /\ dragPoint' = Null

\* ------------------------------------------- the text-overlay effect
\* The dependency list of the effect.
Deps == <<textOverlay, fontFamily, fontSize, textColor, textPosition, imageBeforeText>>

\* Mutant of RenderBase: the text is drawn on the image that is shown.
RenderBaseFromEdited == IF editedImage # Null THEN editedImage ELSE imageBeforeText

\* The base image an overlay render starts from.
RenderBase == imageBeforeText

\* What applyText does with a blank overlay text.
BlankTextImage == imageBeforeText

\* The overlay text counts as blank when textOverlay.trim() is empty.
IsBlank(text) == Trim(text) = <<>>

\* The commit that ends a handler: `edited` is the editedImage the handler
\* itself leaves (setEditedImage, or the old value).  When a dependency
\* changed, applyText runs: it clears editedImage without a base image,
\* starts applyTextOverlay for a non-blank text, and otherwise shows the base
\* image.
CommitEffect(edited) ==
    LET changed == Deps' # Deps
        job == [base |-> RenderBase',
                text |-> textOverlay',
                options |-> [fontFamily |-> fontFamily', fontSize |-> fontSize',
                             textColor |-> textColor', textPosition |-> textPosition']]
    IN /\ editedImage' = IF ~changed THEN edited
                         ELSE IF imageBeforeText' = Null THEN Null
                         ELSE IF ~IsBlank(textOverlay') THEN edited
                         ELSE BlankTextImage'
       /\ renders' = IF changed /\ imageBeforeText' # Null /\ ~IsBlank(textOverlay')
                     THEN Append(renders, job)
                     ELSE renders
       /\ Len(renders') <= MaxRenders

\* An overlay render settles: the continuation of applyText after the await.
RenderSettles(j, ctxOk) ==
    /\ j \in 1..Len(renders)
    /\ LET job == renders[j]
           result == applyTextOverlay(job.base, job.text, job.options, ctxOk)
       IN IF result.ok
          THEN /\ editedImage' = result.url
               /\ UNCHANGED error
          ELSE /\ error' = Err("Failed to apply text overlay.")
               /\ UNCHANGED editedImage
    /\ renders' = RemoveAt(renders, j)
    /\ UNCHANGED <<uncroppedImage, originalImage, backgroundImage, imageBeforeText,
                   prompt, isLoading, textOverlay, fontFamily, fontSize, textColor,
                   textPosition, isTextToolsVisible, outputFormat, aspectRatio>>
    /\ UNCHANGED <<cropVars, reads, requests, downloads>>

\* Mutant of resetEditorState: the text position is kept.
resetEditorStateKeepsPosition ==
    /\ imageBeforeText' = Null
    /\ error' = Null
    /\ prompt' = ""
    /\ textOverlay' = <<>>
    /\ isTextToolsVisible' = FALSE
    /\ outputFormat' = "png"
    /\ aspectRatio' = "original"
    /\ textPosition' = textPosition

\* resetEditorState, apart from editedImage (see CommitEffect).
resetEditorState ==
    /\ imageBeforeText' = Null
    /\ error' = Null
    /\ prompt' = ""
    /\ textOverlay' = <<>>
    /\ isTextToolsVisible' = FALSE
    /\ outputFormat' = "png"
    /\ aspectRatio' = "original"
    /\ textPosition' = "center"

\* ---------------------------------------------------------------- Uploader
\* handleFileChange up to the await: the read of the chosen file starts.
HandleFileChange(file) ==
    /\ View = "uploader"
    /\ Len(reads) < MaxReads
    /\ reads' = Append(reads, [file |-> file, target |-> "original"])
    /\ UNCHANGED <<appVars, cropVars, requests, renders, downloads>>

\* handleFileChange after the await: the cropper opens on the loaded image.
FileLoaded(i) ==
    /\ i \in 1..Len(reads)
    /\ reads[i].target = "original"
    /\ LET imageData == fileToDataUrl(reads[i].file)
       IN uncroppedImage' = imageData.url
    /\ originalImage' = Null
    /\ resetEditorState
    /\ UNCHANGED <<backgroundImage, isLoading, fontFamily, fontSize, textColor>>
    /\ CommitEffect(Null)
    /\ CropperKept
    /\ reads' = RemoveAt(reads, i)
    /\ UNCHANGED <<requests, downloads>>

\* The catch blocks of handleFileChange and handleBackgroundFileChange.
FileReadFailed(i) ==
    /\ i \in 1..Len(reads)
    /\ error' = IF reads[i].target = "original"
                THEN Err("Failed to load image. Please try another file.")
                ELSE Err("Failed to load background image. Please try another file.")
    /\ reads' = RemoveAt(reads, i)
    /\ UNCHANGED <<uncroppedImage, originalImage, backgroundImage, imageBeforeText,
                   editedImage, prompt, isLoading, textOverlay, fontFamily, fontSize,
                   textColor, textPosition, isTextToolsVisible, outputFormat, aspectRatio>>
    /\ UNCHANGED <<cropVars, requests, renders, downloads>>

\* ------------------------------------------------------------ ImageCropper
HandleMouseDown(p) ==
    /\ View = "cropper"
    /\ cropStart' = Point(p)
    /\ cropEnd' = Point(p)
    /\ isCropping' = TRUE
    /\ downPoint' = Point(p)
    /\ dragPoint' = Point(p)
    /\ UNCHANGED <<appVars, asyncVars>>

\* Mutant of MoveTracked: handleMouseMove without the isCropping test.
MoveTrackedAlways == TRUE

\* Whether handleMouseMove follows the pointer.
MoveTracked == isCropping

HandleMouseMove(p) ==
    /\ View = "cropper"
    /\ cropEnd' = IF MoveTracked THEN Point(p) ELSE cropEnd
    /\ dragPoint' = IF isCropping THEN Point(p) ELSE dragPoint
    /\ UNCHANGED <<isCropping, cropStart, downPoint>>
    /\ UNCHANGED <<appVars, asyncVars>>

\* onMouseUp and onMouseLeave.
HandleMouseUp ==
    /\ View = "cropper"
    /\ isCropping' = FALSE
    /\ UNCHANGED <<cropStart, cropEnd, downPoint, dragPoint>>
    /\ UNCHANGED <<appVars, asyncVars>>

\* handleConfirmCrop, and handleCropComplete when it is called.
HandleConfirmCrop(ctxOk) ==
    /\ View = "cropper"
    /\ LET cropRect == getCropRect(isCropping, cropStart, cropEnd)
           image == ConfirmCropResult(uncroppedImage, cropRect, ctxOk)
       IN IF image = Null
          THEN UNCHANGED <<originalImage, uncroppedImage, cropVars>>
          ELSE /\ originalImage' = image
               /\ uncroppedImage' = Null
               /\ CropperKept
    /\ UNCHANGED <<backgroundImage, imageBeforeText, editedImage, prompt, isLoading, error,
                   textOverlay, fontFamily, fontSize, textColor, textPosition,
                   isTextToolsVisible, outputFormat, aspectRatio>>
    /\ UNCHANGED asyncVars

HandleCropCancel ==
    /\ View = "cropper"
    /\ uncroppedImage' = Null
    /\ CropperKept
    /\ UNCHANGED <<originalImage, backgroundImage, imageBeforeText, editedImage, prompt,
                   isLoading, error, textOverlay, fontFamily, fontSize, textColor,
                   textPosition, isTextToolsVisible, outputFormat, aspectRatio>>
    /\ UNCHANGED asyncVars

\* ------------------------------------------------------------------ Editor
\* The prompt field and the example-prompt buttons.
SetPrompt(p) ==
    /\ View = "editor"
    /\ prompt' = p
    /\ UNCHANGED <<uncroppedImage, originalImage, backgroundImage, imageBeforeText,
                   editedImage, isLoading, error, textOverlay, fontFamily, fontSize,
                   textColor, textPosition, isTextToolsVisible, outputFormat, aspectRatio>>
    /\ UNCHANGED <<cropVars, asyncVars>>

SetAspectRatio(a) ==
    /\ View = "editor"
    /\ aspectRatio' = a
    /\ UNCHANGED <<uncroppedImage, originalImage, backgroundImage, imageBeforeText,
                   editedImage, prompt, isLoading, error, textOverlay, fontFamily,
                   fontSize, textColor, textPosition, isTextToolsVisible, outputFormat>>
    /\ UNCHANGED <<cropVars, asyncVars>>

\* handleBackgroundFileChange up to the await (the button is there while no
\* background image is set).
HandleBackgroundFileChange(file) ==
    /\ View = "editor"
    /\ backgroundImage = Null
    /\ Len(reads) < MaxReads
    /\ reads' = Append(reads, [file |-> file, target |-> "background"])
    /\ UNCHANGED <<appVars, cropVars, requests, renders, downloads>>

\* handleBackgroundFileChange after the await.
BackgroundLoaded(i) ==
    /\ i \in 1..Len(reads)
    /\ reads[i].target = "background"
    /\ backgroundImage' = fileToDataUrl(reads[i].file)
    /\ prompt' = CannedPrompt
    /\ reads' = RemoveAt(reads, i)
    /\ UNCHANGED <<uncroppedImage, originalImage, imageBeforeText, editedImage, isLoading,
                   error, textOverlay, fontFamily, fontSize, textColor, textPosition,
                   isTextToolsVisible, outputFormat, aspectRatio>>
    /\ UNCHANGED <<cropVars, requests, renders, downloads>>

\* Mutant of PromptAfterRemoval: the prompt is always cleared.
PromptClearedOnRemoval == ""

\* The prompt removeBackgroundImage leaves.
PromptAfterRemoval == IF prompt = CannedPrompt THEN "" ELSE prompt

removeBackgroundImage ==
    /\ View = "editor"
    /\ backgroundImage # Null
    /\ backgroundImage' = Null
    /\ prompt' = PromptAfterRemoval
    /\ UNCHANGED <<uncroppedImage, originalImage, imageBeforeText, editedImage, isLoading,
                   error, textOverlay, fontFamily, fontSize, textColor, textPosition,
                   isTextToolsVisible, outputFormat, aspectRatio>>
    /\ UNCHANGED <<cropVars, asyncVars>>

\* The "Add Text" button (rendered while imageBeforeText is set).
ToggleTextTools ==
    /\ View = "editor"
    /\ imageBeforeText # Null
    /\ isTextToolsVisible' = ~isTextToolsVisible
    /\ UNCHANGED <<uncroppedImage, originalImage, backgroundImage, imageBeforeText,
                   editedImage, prompt, isLoading, error, textOverlay, fontFamily,
                   fontSize, textColor, textPosition, outputFormat, aspectRatio>>
    /\ UNCHANGED <<cropVars, asyncVars>>

\* The text tools are rendered while they are switched on and there is a
\* generated image.
TextToolsShown == View = "editor" /\ isTextToolsVisible /\ imageBeforeText # Null

SetTextOverlay(t) ==
    /\ TextToolsShown
    /\ textOverlay' = t
    /\ UNCHANGED <<fontFamily, fontSize, textColor, textPosition>>
    /\ UNCHANGED <<uncroppedImage, originalImage, backgroundImage, imageBeforeText, prompt,
                   isLoading, error, isTextToolsVisible, outputFormat, aspectRatio>>
    /\ CommitEffect(editedImage)
    /\ UNCHANGED <<cropVars, reads, requests, downloads>>

SetFontFamily(f) ==
    /\ TextToolsShown
    /\ fontFamily' = f
    /\ UNCHANGED <<textOverlay, fontSize, textColor, textPosition>>
    /\ UNCHANGED <<uncroppedImage, originalImage, backgroundImage, imageBeforeText, prompt,
                   isLoading, error, isTextToolsVisible, outputFormat, aspectRatio>>
    /\ CommitEffect(editedImage)
    /\ UNCHANGED <<cropVars, reads, requests, downloads>>

\* parseInt(e.target.value, 10) || 1
ParseFontSize(input) == IF input.nan \/ input.val = 0 THEN 1 ELSE input.val

SetFontSize(input) ==
    /\ TextToolsShown
    /\ fontSize' = ParseFontSize(input)
    /\ UNCHANGED <<textOverlay, fontFamily, textColor, textPosition>>
    /\ UNCHANGED <<uncroppedImage, originalImage, backgroundImage, imageBeforeText, prompt,
                   isLoading, error, isTextToolsVisible, outputFormat, aspectRatio>>
    /\ CommitEffect(editedImage)
    /\ UNCHANGED <<cropVars, reads, requests, downloads>>

SetTextColor(c) ==
    /\ TextToolsShown
    /\ textColor' = c
    /\ UNCHANGED <<textOverlay, fontFamily, fontSize, textPosition>>
    /\ UNCHANGED <<uncroppedImage, originalImage, backgroundImage, imageBeforeText, prompt,
                   isLoading, error, isTextToolsVisible, outputFormat, aspectRatio>>
    /\ CommitEffect(editedImage)
    /\ UNCHANGED <<cropVars, reads, requests, downloads>>

SetTextPosition(pos) ==
    /\ TextToolsShown
    /\ textPosition' = pos
    /\ UNCHANGED <<textOverlay, fontFamily, fontSize, textColor>>
    /\ UNCHANGED <<uncroppedImage, originalImage, backgroundImage, imageBeforeText, prompt,
                   isLoading, error, isTextToolsVisible, outputFormat, aspectRatio>>
    /\ CommitEffect(editedImage)
    /\ UNCHANGED <<cropVars, reads, requests, downloads>>

\* The download options are rendered while there is an edited image and no
\* request is marked as loading.
DownloadOptionsShown == View = "editor" /\ editedImage # Null /\ ~isLoading

SetOutputFormat(f) ==
    /\ DownloadOptionsShown
    /\ outputFormat' = f
    /\ UNCHANGED <<uncroppedImage, originalImage, backgroundImage, imageBeforeText,
                   editedImage, prompt, isLoading, error, textOverlay, fontFamily,
                   fontSize, textColor, textPosition, isTextToolsVisible, aspectRatio>>
    /\ UNCHANGED <<cropVars, asyncVars>>

\* handleDownload: the Download button.
HandleDownload ==
    /\ DownloadOptionsShown
    /\ Len(downloads) < MaxDownloads
    /\ LET job == StartDownload(editedImage, outputFormat)
       IN downloads' = IF job = Null THEN downloads ELSE Append(downloads, job)
    /\ UNCHANGED <<appVars, cropVars, reads, requests, renders>>

\* img.onload / img.onerror of handleDownload.
DownloadSettles(k, ctxOk) ==
    /\ k \in 1..Len(downloads)
    /\ error' = IF Decodable(SplitComma1(downloads[k].src)) THEN error
                ELSE Err("Failed to process image for download.")
    /\ downloads' = RemoveAt(downloads, k)
    /\ UNCHANGED <<uncroppedImage, originalImage, backgroundImage, imageBeforeText,
                   editedImage, prompt, isLoading, textOverlay, fontFamily, fontSize,
                   textColor, textPosition, isTextToolsVisible, outputFormat, aspectRatio>>
    /\ UNCHANGED <<cropVars, reads, requests, renders>>

\* ---------------------------------------------------------- handleGenerate
\* Mutant of ImagePayload: split(',')[0], the header, is sent as the payload.
ImagePayloadOfHeader(image) == [base64Data |-> image.url.seg0, mimeType |-> image.mimeType]

\* The payload handleGenerate builds from an OriginalImage.
ImagePayload(image) == [base64Data |-> SplitComma1(image.url), mimeType |-> image.mimeType]

\* The pending promise of a call is told apart by a slot number: the least
\* one no pending call holds.
FreeId ==
    CHOOSE s \in 1..MaxPending :
        /\ \A i \in 1..Len(requests) : requests[i].id # s
        /\ \A t \in 1..(s - 1) : \E i \in 1..Len(requests) : requests[i].id = t

\* Mutant of RefusedLocally: only a missing image is refused.
RefusedWithoutImageOnly == originalImage = Null

\* The test handleGenerate starts with: !prompt || !originalImage.
RefusedLocally == prompt = "" \/ originalImage = Null

\* handleGenerate up to the await: it refuses without a prompt or an image,
\* and otherwise clears the last outcome and sends the request.
handleGenerate ==
    IF RefusedLocally
    THEN /\ error' = Err("Please enter a prompt and upload an image first.")
         /\ UNCHANGED <<uncroppedImage, originalImage, backgroundImage, imageBeforeText,
                        editedImage, prompt, isLoading, textOverlay, fontFamily, fontSize,
                        textColor, textPosition, isTextToolsVisible, outputFormat,
                        aspectRatio>>
         /\ UNCHANGED <<cropVars, asyncVars>>
    ELSE /\ Len(requests) < MaxPending
         /\ isLoading' = TRUE
         /\ error' = Null
         /\ imageBeforeText' = Null
         /\ UNCHANGED <<textOverlay, fontFamily, fontSize, textColor, textPosition>>
         /\ CommitEffect(Null)
         /\ LET originalImagePayload == ImagePayload(originalImage)
                backgroundImagePayload == IF backgroundImage # Null
                                          THEN ImagePayload(backgroundImage)
                                          ELSE Null
            IN requests' = Append(requests,
                   [id |-> FreeId,
                    parts |-> RequestParts(originalImagePayload, prompt,
                                           backgroundImagePayload, aspectRatio)])
         /\ UNCHANGED <<uncroppedImage, originalImage, backgroundImage, prompt,
                        isTextToolsVisible, outputFormat, aspectRatio>>
         /\ UNCHANGED <<cropVars, reads, downloads>>

\* The Generate button is disabled while isLoading or without a prompt.
GenerateButtonEnabled == ~(isLoading \/ prompt = "")

GenerateClick ==
    /\ View = "editor"
    /\ GenerateButtonEnabled
    /\ handleGenerate

\* onKeyDown of the prompt field: e.key === 'Enter' && handleGenerate().
GenerateKeyDown ==
    /\ View = "editor"
    /\ handleGenerate

\* Mutant of GeneratedUrl: the MIME type of the answer is dropped for PNG.
GeneratedUrlAsPng(image) == DataUrl(PNG, image.base64Data)

\* try: the data URL made of the generated image.
GeneratedUrl(image) == DataUrl(image.mimeType, image.base64Data)

\* handleGenerate after the await: try (success), catch (failure), finally.
RequestSettles(i, outcome) ==
    /\ i \in 1..Len(requests)
    /\ LET result == GeminiResult(outcome)
       IN IF result.ok
          THEN /\ imageBeforeText' = GeneratedUrl(result.image)
               /\ UNCHANGED error
          ELSE /\ error' = Err("Generation failed: " \o result.message)
               /\ UNCHANGED imageBeforeText
    /\ isLoading' = FALSE
    /\ UNCHANGED <<textOverlay, fontFamily, fontSize, textColor, textPosition>>
    /\ CommitEffect(editedImage)
    /\ requests' = RemoveAt(requests, i)
    /\ UNCHANGED <<uncroppedImage, originalImage, backgroundImage, prompt,
                   isTextToolsVisible, outputFormat, aspectRatio>>
    /\ UNCHANGED <<cropVars, reads, downloads>>

\* reset: the Start Over button.
reset ==
    /\ View = "editor"
    /\ originalImage' = Null
    /\ uncroppedImage' = Null
    /\ backgroundImage' = Null
    /\ resetEditorState
    /\ isLoading' = FALSE
    /\ UNCHANGED <<fontFamily, fontSize, textColor>>
    /\ CommitEffect(Null)
    /\ UNCHANGED <<cropVars, reads, requests, downloads>>

\* ------------------------------------------------------------------- Next
Next ==
    \/ \E file \in Files : HandleFileChange(file)
    \/ \E i \in 1..MaxReads : FileLoaded(i)
    \/ \E i \in 1..MaxReads : FileReadFailed(i)
    \/ \E p \in Points : HandleMouseDown(p)
    \/ \E p \in Points : HandleMouseMove(p)
    \/ HandleMouseUp
    \/ \E ctxOk \in BOOLEAN : HandleConfirmCrop(ctxOk)
    \/ HandleCropCancel
    \/ \E p \in Prompts : SetPrompt(p)
    \/ \E a \in AspectRatios : SetAspectRatio(a)
    \/ \E file \in BackgroundFiles : HandleBackgroundFileChange(file)
    \/ \E i \in 1..MaxReads : BackgroundLoaded(i)
    \/ removeBackgroundImage
    \/ ToggleTextTools
    \/ \E t \in Texts : SetTextOverlay(t)
    \/ \E f \in FontFamilies : SetFontFamily(f)
    \/ \E input \in FontSizeInputs : SetFontSize(input)
    \/ \E c \in TextColors : SetTextColor(c)
    \/ \E pos \in TextPositionChoices : SetTextPosition(pos)
    \/ \E f \in OutputFormats : SetOutputFormat(f)
    \/ HandleDownload
    \/ \E k \in 1..MaxDownloads, ctxOk \in BOOLEAN : DownloadSettles(k, ctxOk)
    \/ GenerateClick
    \/ GenerateKeyDown
    \/ \E i \in 1..MaxPending, outcome \in ServiceOutcomes : RequestSettles(i, outcome)
    \/ \E j \in 1..MaxRenders, ctxOk \in BOOLEAN : RenderSettles(j, ctxOk)
    \/ reset

Spec == Init /\ [][Next]_vars

\* ------------------------------------------------------------------ slices
\* The variables of the program fall into groups that the handlers couple only
\* loosely, and the reachable states of Next are their product.  Each slice
\* below is Next restricted to the handlers that read or write the variables
\* of one group, with the other handlers never taken (and, where a handler's
\* input does not matter to the group, with one value for it); every
\* behaviour of a slice is a behaviour of Spec.

\* Upload and crop: the uploader, the cropper with its mouse events, and
\* Start Over to come back.
NextCrop ==
    \/ \E file \in Files : HandleFileChange(file)
    \/ \E i \in 1..MaxReads : FileLoaded(i)
    \/ \E i \in 1..MaxReads : FileReadFailed(i)
    \/ \E p \in Points : HandleMouseDown(p)
    \/ \E p \in Points : HandleMouseMove(p)
    \/ HandleMouseUp
    \/ \E ctxOk \in BOOLEAN : HandleConfirmCrop(ctxOk)
    \/ HandleCropCancel
    \/ reset

SpecCrop == Init /\ [][NextCrop]_vars

\* Generation: upload, crop (as it is, or one drag from the corner), prompt,
\* the two ways to generate, the service's answers, Start Over.
NextGenerate ==
    \/ \E file \in Files : HandleFileChange(file)
    \/ \E i \in 1..MaxReads : FileLoaded(i)
    \/ HandleMouseDown(<<0, 0>>)
    \/ HandleMouseMove(<<1, 1>>)
    \/ HandleMouseUp
    \/ \E ctxOk \in BOOLEAN : HandleConfirmCrop(ctxOk)
    \/ HandleCropCancel
    \/ \E p \in Prompts : SetPrompt(p)
    \/ GenerateClick
    \/ GenerateKeyDown
    \/ \E i \in 1..MaxPending, outcome \in ServiceOutcomes : RequestSettles(i, outcome)
    \/ reset

SpecGenerate == Init /\ [][NextGenerate]_vars

\* A pending call settles; s is its slot number.
SettleSlot(s) ==
    \E i \in 1..MaxPending, outcome \in ServiceOutcomes :
        /\ i <= Len(requests)
        /\ requests[i].id = s
        /\ RequestSettles(i, outcome)

\* Settling: one image cropped as it is, the prompt, the two ways to
\* generate, the service's answers, Start Over.
NextSettle ==
    \/ HandleFileChange(FileA)
    \/ \E i \in 1..MaxReads : FileLoaded(i)
    \/ HandleConfirmCrop(TRUE)
    \/ \E p \in Prompts : SetPrompt(p)
    \/ GenerateClick
    \/ GenerateKeyDown
    \/ \E i \in 1..MaxPending, outcome \in ServiceOutcomes : RequestSettles(i, outcome)
    \/ reset

SpecSettle == Init /\ [][NextSettle]_vars

\* The service settles every call: the promise returned by generateContent is
\* resolved or rejected, and the continuation of handleGenerate then runs.
FairSettle ==
    SpecSettle /\ \A s \in 1..MaxPending : WF_vars(SettleSlot(s))

\* Text overlay: one image, one prompt, generation (one image or an error),
\* the text tools, the overlay renders.
NextOverlay ==
    \/ HandleFileChange(FileB)
    \/ \E i \in 1..MaxReads : FileLoaded(i)
    \/ HandleConfirmCrop(TRUE)
    \/ SetPrompt("Add a dog in the foreground")
    \/ GenerateClick
    \/ \E i \in 1..MaxPending, outcome \in {AnswersGen1, ThrowsError} :
           RequestSettles(i, outcome)
    \/ ToggleTextTools
    \/ \E t \in Texts : SetTextOverlay(t)
    \/ \E f \in FontFamilies : SetFontFamily(f)
    \/ \E input \in FontSizeInputs : SetFontSize(input)
    \/ \E c \in TextColors : SetTextColor(c)
    \/ \E pos \in TextPositionChoices : SetTextPosition(pos)
    \/ \E j \in 1..MaxRenders, ctxOk \in BOOLEAN : RenderSettles(j, ctxOk)

SpecOverlay == Init /\ [][NextOverlay]_vars

\* Export: one image, one prompt, generation, the overlay text, the output
\* format and the download.
NextDownload ==
    \/ HandleFileChange(FileB)
    \/ \E i \in 1..MaxReads : FileLoaded(i)
    \/ HandleConfirmCrop(TRUE)
    \/ SetPrompt("Add a dog in the foreground")
    \/ GenerateClick
    \/ \E i \in 1..MaxPending, outcome \in {AnswersGen1, AnswersJunk, ThrowsError} :
           RequestSettles(i, outcome)
    \/ ToggleTextTools
    \/ \E t \in {<<>>, <<"A">>} : SetTextOverlay(t)
    \/ \E j \in 1..MaxRenders, ctxOk \in BOOLEAN : RenderSettles(j, ctxOk)
    \/ \E f \in OutputFormats : SetOutputFormat(f)
    \/ HandleDownload
    \/ \E k \in 1..MaxDownloads, ctxOk \in BOOLEAN : DownloadSettles(k, ctxOk)

SpecDownload == Init /\ [][NextDownload]_vars

\* Request assembly: one image cropped as it is, the prompt, the aspect
\* ratio, the background image, the two ways to generate, the service's
\* answers.
NextRequest ==
    \/ HandleFileChange(FileA)
    \/ \E i \in 1..MaxReads : FileLoaded(i)
    \/ HandleConfirmCrop(TRUE)
    \/ \E p \in {"", "Add a dog in the foreground"} : SetPrompt(p)
    \/ \E a \in AspectRatios : SetAspectRatio(a)
    \/ \E file \in BackgroundFiles : HandleBackgroundFileChange(file)
    \/ \E i \in 1..MaxReads : BackgroundLoaded(i)
    \/ removeBackgroundImage
    \/ GenerateClick
    \/ GenerateKeyDown
    \/ \E i \in 1..MaxPending, outcome \in {AnswersGen1, ThrowsError} :
           RequestSettles(i, outcome)

SpecRequest == Init /\ [][NextRequest]_vars

\* Starting over: one image, a background image (which brings its prompt),
\* the settings of the editor (with a blank overlay text, which starts no
\* render), a generation, Start Over.
NextReset ==
    \/ HandleFileChange(FileB)
    \/ \E i \in 1..MaxReads : FileLoaded(i)
    \/ HandleConfirmCrop(TRUE)
    \/ SetAspectRatio("16:9")
    \/ \E file \in BackgroundFiles : HandleBackgroundFileChange(file)
    \/ \E i \in 1..MaxReads : BackgroundLoaded(i)
    \/ GenerateClick
    \/ \E i \in 1..MaxPending : RequestSettles(i, AnswersGen1)
    \/ ToggleTextTools
    \/ SetTextOverlay(<<" ">>)
    \/ SetFontFamily("Impact")
    \/ SetFontSize([nan |-> TRUE, val |-> 0])
    \/ SetTextColor("#000000")
    \/ SetTextPosition("top-left")
    \/ SetOutputFormat("jpeg")
    \/ reset

SpecReset == Init /\ [][NextReset]_vars

\* ============================================================== statements

\* C1: at most one edit request to the editing service is pending at any
\* time, whatever the user does in the editor.
C1_AtMostOnePending == Len(requests) <= 1

\* C2: isLoading is true exactly while an edit request issued by
\* handleGenerate has not settled yet.
C2_LoadingIffPending == isLoading <=> (Len(requests) > 0)

\* The call in slot s has not settled yet.
SlotPending(s) == \E i \in 1..Len(requests) : requests[i].id = s

\* What the claim expects of the step in which a call settles, given how
\* editImageWithGemini settled: isLoading is false afterwards; a resolved
\* call leaves 'data:<mimeType>;base64,<data>' in imageBeforeText and does
\* not touch error; a rejected call leaves 'Generation failed: <message>' in
\* error and does not touch imageBeforeText.
SettledAsClaimed(outcome) ==
    LET result == GeminiResult(outcome)
    IN /\ isLoading' = FALSE
       /\ result.ok =>
            /\ imageBeforeText' =
                 [seg0 |-> <<"data:">> \o result.image.mimeType \o <<";base64">>,
                  seg1 |-> result.image.base64Data]
            /\ error' = error
       /\ ~result.ok =>
            /\ error' = [message |-> "Generation failed: " \o result.message]
            /\ imageBeforeText' = imageBeforeText

\* C3: every accepted Generate settles once the service call settles, and
\* the step in which it settles leaves isLoading false and records exactly the
\* outcome of that call (the generated image's data URL, or the error
\* 'Generation failed: <message>').
C3_GenerateSettles ==
    /\ [][\A i \in 1..MaxPending, outcome \in ServiceOutcomes :
            RequestSettles(i, outcome) => SettledAsClaimed(outcome)]_vars
    /\ \A s \in 1..MaxPending : SlotPending(s) ~> ~SlotPending(s)

\* C3, witness: a call has settled with an image and nothing is pending.
C3_Witness ==
    /\ imageBeforeText # Null
    /\ ~isLoading
    /\ Len(requests) = 0
    /\ error = Null

\* C4: an edit request is sent only while the cropper is closed, an original
\* image is set and the prompt is not empty, and its first part carries the
\* base64 payload (the text after the comma) of that original image.
C4_RequestOnlyFromEditor ==
    [][Len(requests') > Len(requests) =>
          /\ uncroppedImage = Null
          /\ originalImage # Null
          /\ prompt # ""
          /\ requests'[Len(requests')].parts[1].kind = "inline"
          /\ requests'[Len(requests')].parts[1].data = originalImage.url.seg1]_vars

\* C4, witness: a request for a cropped image is pending.
C4_Witness ==
    /\ Len(requests) > 0
    /\ originalImage # Null
    /\ originalImage.url.seg1.kind = "crop"
    /\ requests[1].parts[1].data = originalImage.url.seg1

\* C9: an image that went through the crop step without a selection keeps the
\* data URI and the MIME type of the uploaded file, and that MIME type is the
\* one sent for the primary image.
C9_MimeTypeKept ==
    \A file \in Files :
        (originalImage # Null /\ originalImage.url = DataUrl(file.type, file.bytes)) =>
            /\ originalImage.mimeType = file.type
            /\ \A i \in 1..Len(requests) :
                 requests[i].parts[1].data = file.bytes =>
                     requests[i].parts[1].mimeType = file.type

\* The selection the cropper shows and crops to.
Selection == getCropRect(isCropping, cropStart, cropEnd)

\* The rectangle spanned by two points, or Null when it has no area.
SpannedRect(a, b) ==
    IF a.x = b.x \/ a.y = b.y THEN Null
    ELSE [x |-> IF a.x < b.x THEN a.x ELSE b.x,
          y |-> IF a.y < b.y THEN a.y ELSE b.y,
          width |-> IF a.x < b.x THEN b.x - a.x ELSE a.x - b.x,
          height |-> IF a.y < b.y THEN b.y - a.y ELSE a.y - b.y]

C5_EditedImpliesBase == editedImage # Null => imageBeforeText # Null

\* The edited image the current generated image and overlay parameters call
\* for: the generated image itself for a blank text, and otherwise the overlay
\* of the text on it.
ExpectedEdited ==
    IF \A k \in 1..Len(textOverlay) : textOverlay[k] = " "
    THEN imageBeforeText
    ELSE applyTextOverlay(imageBeforeText, textOverlay,
                          [fontFamily |-> fontFamily, fontSize |-> fontSize,
                           textColor |-> textColor, textPosition |-> textPosition],
                          TRUE).url

\* C6: once every overlay render that was started has completed (and none
\* has failed), the edited image is the overlay of the current generated image
\* with the current parameters, in whatever order the renders completed.
C6_OverlayConverges ==
    (imageBeforeText # Null /\ Len(renders) = 0 /\ error = Null)
        => editedImage = ExpectedEdited

\* A step that changes an overlay parameter or completes an overlay render.
OverlayStep ==
    \/ \E t \in Texts : SetTextOverlay(t)
    \/ \E f \in FontFamilies : SetFontFamily(f)
    \/ \E input \in FontSizeInputs : SetFontSize(input)
    \/ \E c \in TextColors : SetTextColor(c)
    \/ \E pos \in TextPositionChoices : SetTextPosition(pos)
    \/ \E j \in 1..MaxRenders, ctxOk \in BOOLEAN : RenderSettles(j, ctxOk)

\* C7: no overlay render and no change of an overlay parameter modifies
\* imageBeforeText; every render that starts takes the current
\* imageBeforeText as its base, so an edited image is never an overlay on an
\* overlay; and when the effect runs with an empty or whitespace-only text it
\* leaves editedImage equal to imageBeforeText.
C7_OverlayOnCopy ==
    /\ [][OverlayStep => imageBeforeText' = imageBeforeText]_vars
    /\ [][Len(renders') > Len(renders) =>
             renders'[Len(renders')].base = imageBeforeText']_vars
    /\ [](editedImage # Null /\ editedImage.seg1.kind = "overlay"
             => editedImage.seg1.base.kind # "overlay")
    /\ [][(Deps' # Deps /\ \A k \in 1..Len(textOverlay') : textOverlay'[k] = " ")
             => editedImage' = imageBeforeText']_vars

\* C7, witness: a whitespace-only text after a rendered overlay: the edited
\* image is the generated image again.
C7_Witness ==
    /\ imageBeforeText # Null
    /\ textOverlay = <<" ">>
    /\ editedImage = imageBeforeText
    /\ fontFamily = "Impact"
    /\ Len(renders) = 0

\* C8: the file a download produces has the edited image's width and height,
\* the MIME type 'image/<format>' and the name 'edited-image.<format>' for the
\* format chosen when Download was pressed, and a white background exactly
\* for jpeg; handleDownload starts nothing without an edited image.
C8_ExportReencodes ==
    /\ editedImage = Null => StartDownload(editedImage, outputFormat) = Null
    /\ \A k \in 1..Len(downloads) :
         LET job == downloads[k]
             file == SavedFile(job, TRUE)
         IN /\ job.outputFormat \in OutputFormats
            /\ job.src # Null
            /\ file.href.seg1.w = job.src.seg1.w
            /\ file.href.seg1.h = job.src.seg1.h
            /\ file.href.seg1.drawn = job.src.seg1
            /\ file.href.seg0 = <<"data:", "image", "/", job.outputFormat, ";base64">>
            /\ file.download = <<"edited-image.", job.outputFormat>>
            /\ (file.href.seg1.background = "#ffffff") <=> (job.outputFormat = "jpeg")

\* C8, witness: a jpeg download of an image with overlay text is under way.
C8_Witness ==
    /\ Len(downloads) > 0
    /\ downloads[1].outputFormat = "jpeg"
    /\ downloads[1].src.seg1.kind = "overlay"

\* What Confirm Crop is expected to hand to onCropComplete for the uploaded
\* image url and the selection rect: the url itself without a selection, and
\* with one a PNG cut out of the uploaded bitmap at the selection's scaled
\* origin and with its scaled size.
CropDelivers(image, url, rect) ==
    IF rect = Null
    THEN image # Null /\ image.url = url
    ELSE /\ image # Null
         /\ image.mimeType = PNG
         /\ image.url.seg0 = <<"data:">> \o PNG \o <<";base64">>
         /\ image.url.seg1.kind = "crop"
         /\ image.url.seg1.of = url.seg1
         /\ image.url.seg1.sx * DisplayWidth = rect.x * url.seg1.w
         /\ image.url.seg1.sy * DisplayHeight = rect.y * url.seg1.h
         /\ image.url.seg1.w * DisplayWidth = rect.width * url.seg1.w
         /\ image.url.seg1.h * DisplayHeight = rect.height * url.seg1.h

\* C11: Confirm Crop always calls onCropComplete exactly once and closes the
\* cropper: with a selection it hands over a new PNG of the selection's scaled
\* size taken from its scaled origin, without one (or with a zero-area one)
\* the uploaded image's data URL unchanged.
C11_ConfirmCropCompletes ==
    /\ [](View = "cropper" =>
            \A ctxOk \in BOOLEAN :
                CropDelivers(ConfirmCropResult(uncroppedImage, Selection, ctxOk),
                             uncroppedImage, Selection))
    /\ [][\A ctxOk \in BOOLEAN :
            HandleConfirmCrop(ctxOk) =>
                /\ uncroppedImage' = Null
                /\ CropDelivers(originalImage', uncroppedImage, Selection)]_vars

\* The instruction the claim expects after the prompt for an aspect ratio.
ExpectedInstruction(ratio) ==
    CASE ratio = "16:9" ->
           "\n\nPlease generate the output image with a 16:9 aspect ratio."
      [] ratio = "4:3" ->
           "\n\nPlease generate the output image with a 4:3 aspect ratio."
      [] OTHER -> "\n\nPlease preserve the aspect ratio of the first image."

\* C12: a request that is sent has the primary image as its first part, the
\* background image as its second part exactly when one is set, and as its
\* last part the text made of the prompt and the aspect-ratio instruction.
C12_RequestAssembly ==
    [][Len(requests') > Len(requests) =>
          LET parts == requests'[Len(requests')].parts
              n == Len(parts)
          IN /\ n = IF backgroundImage # Null THEN 3 ELSE 2
             /\ parts[1] = [kind |-> "inline", data |-> originalImage.url.seg1,
                            mimeType |-> originalImage.mimeType]
             /\ backgroundImage # Null =>
                    parts[2] = [kind |-> "inline", data |-> backgroundImage.url.seg1,
                                mimeType |-> backgroundImage.mimeType]
             /\ parts[n] = [kind |-> "text",
                            text |-> prompt \o ExpectedInstruction(aspectRatio)]]_vars

\* C12, witness: a request with a background image and the 4:3 instruction is
\* pending.
C12_Witness ==
    /\ Len(requests) > 0
    /\ Len(requests[1].parts) = 3
    /\ requests[1].parts[2].data = FileB.bytes
    /\ requests[1].parts[3].text =
           CannedPrompt \o "\n\nPlease generate the output image with a 4:3 aspect ratio."

\* Whether a response part carries inline data of an image MIME type.
IsImagePart(part) ==
    /\ part.kind = "inline"
    /\ Len(part.mimeType) >= 2
    /\ part.mimeType[1] = "image"
    /\ part.mimeType[2] = "/"

\* The parts the service answered with (none when it answered without
\* candidates).
AnsweredParts(outcome) == IF outcome.kind = "response" THEN outcome.parts ELSE <<>>

\* What the claim expects of editImageWithGemini for an outcome of the call.
SettlesAsClaimed(outcome) ==
    LET result == GeminiResult(outcome)
        parts == AnsweredParts(outcome)
        images == {i \in 1..Len(parts) : IsImagePart(parts[i])}
    IN IF outcome.kind \in {"response", "noCandidates"}
       THEN IF images # {}
            THEN LET first == CHOOSE i \in images : \A j \in images : i <= j
                 IN /\ result.ok
                    /\ result.image = [base64Data |-> parts[first].data,
                                       mimeType |-> parts[first].mimeType]
            ELSE /\ ~result.ok
                 /\ result.message = "No image was generated. The model may not have been able to fulfill the request. Please try a different prompt."
       ELSE IF outcome.kind = "throwError"
            THEN ~result.ok /\ result.message = outcome.message
            ELSE /\ ~result.ok
                 /\ result.message = "An unknown error occurred during image generation."

\* C13: whenever a call settles, editImageWithGemini has resolved with the
\* first image part of the response, or rejected: with the 'No image was
\* generated...' message when the response has no image part, with the message
\* of the Error the call threw, and with the 'unknown error' message otherwise.
C13_TwoOutcomes ==
    [][\A i \in 1..MaxPending, outcome \in ServiceOutcomes :
          RequestSettles(i, outcome) => SettlesAsClaimed(outcome)]_vars

\* C14: a Generate attempt with an empty prompt or without an original image
\* sets error to 'Please enter a prompt and upload an image first.', sends no
\* request and leaves isLoading, imageBeforeText, editedImage, prompt and
\* backgroundImage unchanged.
C14_RejectedLocally ==
    [][((prompt = "" \/ originalImage = Null) /\ (GenerateClick \/ GenerateKeyDown)) =>
          /\ error' = [message |-> "Please enter a prompt and upload an image first."]
          /\ requests' = requests
          /\ UNCHANGED <<isLoading, imageBeforeText, editedImage, prompt,
                         backgroundImage>>]_vars

\* C14, witness: an attempt was refused while an earlier result is held.
C14_Witness ==
    /\ error = [message |-> "Please enter a prompt and upload an image first."]
    /\ prompt = ""
    /\ imageBeforeText # Null
    /\ editedImage # Null
    /\ requests = <<>>

\* An error left by a generation.
GenerationError ==
    /\ error # Null
    /\ error # [message |-> "Please enter a prompt and upload an image first."]
    /\ error # [message |-> "Failed to apply text overlay."]
    /\ error # [message |-> "Failed to load image. Please try another file."]
    /\ error # [message |-> "Failed to load background image. Please try another file."]
    /\ error # [message |-> "Failed to process image for download."]

\* An accepted Generate clears the previous outcome and raises isLoading.
GenerateDiscards ==
    [][Len(requests') > Len(requests) =>
          /\ error' = Null
          /\ editedImage' = Null
          /\ imageBeforeText' = Null
          /\ isLoading' = TRUE]_vars

\* While a request is pending no result or error of a generation is held.
NothingHeldWhilePending ==
    [](Len(requests) > 0 =>
          /\ ~GenerationError
          /\ editedImage = Null
          /\ imageBeforeText = Null)

\* A generation that fails leaves imageBeforeText null.
FailureLeavesNull ==
    [][(Len(requests') < Len(requests) /\ GenerationError' /\ error' # error) =>
          imageBeforeText' = Null]_vars

\* C15: an accepted Generate sets error, editedImage and imageBeforeText to
\* null and isLoading to true before the request is sent; while the request is
\* pending no result or error of an earlier generation is held, and a failed
\* generation leaves imageBeforeText null.
C15_PreviousOutcomeDiscarded ==
    /\ GenerateDiscards
    /\ NothingHeldWhilePending
    /\ FailureLeavesNull

\* The step installs in imageBeforeText the answer to a request that was
\* issued with the image that is on screen now.
AnswerToCurrentImage ==
    \E i \in 1..Len(requests) :
        /\ requests' = RemoveAt(requests, i)
        /\ requests[i].parts[1].data = originalImage.url.seg1
        /\ requests[i].parts[1].mimeType = originalImage.mimeType

\* C16: a generation result belongs to the image on screen: a result is only
\* installed in imageBeforeText for the originalImage its request was issued
\* with, and it does not outlive that originalImage.
C16_ResultBelongsToImage ==
    /\ [][(imageBeforeText' # Null /\ imageBeforeText' # imageBeforeText
             /\ originalImage # Null) => AnswerToCurrentImage]_vars
    /\ [][(originalImage' # originalImage /\ imageBeforeText # Null) =>
             imageBeforeText' = Null]_vars

\* C17: the result panel shows one outcome at a time: while isLoading is
\* false, error and editedImage are not both set.
C17_OneOutcomeShown == ~isLoading => ~(error # Null /\ editedImage # Null)

\* A step from the editor to the uploader: Start Over.
StartedOver ==
    /\ originalImage # Null
    /\ uncroppedImage = Null
    /\ originalImage' = Null
    /\ uncroppedImage' = Null

\* C18: Start Over leaves originalImage, uncroppedImage, backgroundImage,
\* imageBeforeText, editedImage and error null, the prompt and the overlay text
\* empty, isLoading and isTextToolsVisible false, outputFormat 'png',
\* aspectRatio 'original' and textPosition 'center', and does not change
\* fontFamily, fontSize and textColor, which the next image starts with.
C18_StartOver ==
    /\ [][StartedOver =>
             /\ backgroundImage' = Null
             /\ imageBeforeText' = Null
             /\ editedImage' = Null
             /\ error' = Null
             /\ prompt' = ""
             /\ textOverlay' = <<>>
             /\ isLoading' = FALSE
             /\ isTextToolsVisible' = FALSE
             /\ outputFormat' = "png"
             /\ aspectRatio' = "original"
             /\ textPosition' = "center"
             /\ UNCHANGED <<fontFamily, fontSize, textColor>>]_vars
    /\ [][(View = "uploader" \/ View' = "cropper") =>
             UNCHANGED <<fontFamily, fontSize, textColor>>]_vars

\* C18, witness: back in the uploader after Start Over, with the font
\* settings made for the last image.
C18_Witness ==
    /\ View = "uploader"
    /\ fontFamily = "Impact"
    /\ fontSize = 1
    /\ textColor = "#000000"
    /\ textPosition = "center"
    /\ Len(requests) > 0

\* C19: a background image that has loaded sets the prompt to the canned
\* text, whatever the user typed; removing the background image sets
\* backgroundImage to null and clears the prompt only if it is still the
\* canned text.
C19_BackgroundPrompt ==
    /\ [][(\E i \in 1..MaxReads : BackgroundLoaded(i)) =>
             /\ backgroundImage' # Null
             /\ prompt' = "Replace the background of the first image with the second image."]_vars
    /\ [][removeBackgroundImage =>
             /\ backgroundImage' = Null
             /\ prompt' =
                  IF prompt = "Replace the background of the first image with the second image."
                  THEN "" ELSE prompt]_vars

\* C19, witness: the background image was removed after the user had changed
\* the prompt it brought, and a request sent before the removal is pending.
C19_Witness ==
    /\ backgroundImage = Null
    /\ prompt = "Add a dog in the foreground"
    /\ Len(requests) > 0
    /\ Len(requests[1].parts) = 3
    /\ requests[1].parts[3].text =
           "Add a dog in the foreground\n\nPlease preserve the aspect ratio of the first image."
====
